---- MODULE Spec2Model ----
(***************************************************************************)
(* QueueCTL: a SQLite-backed job queue (storage.py), the worker loop that  *)
(* claims and executes jobs (worker.py), the administrative commands       *)
(* enqueue / dlq retry and the shutdown of the worker pool (cli.py).       *)
(*                                                                         *)
(* Timestamps are ISO-8601 strings of timezone-aware UTC datetimes; SQLite *)
(* and Python compare them as text, and for such strings the text order is *)
(* the order of the instants, so a timestamp is modelled by the integer    *)
(* clock reading it was taken at.  The updated_at column is written by     *)
(* every UPDATE and read only by the ORDER BY of list_jobs; it decides     *)
(* nothing here and is left out of the rows.                               *)
(***************************************************************************)
EXTENDS Integers, FiniteSets, Sequences, TLC

(* ---- bounds of the model ---- *)
NumJobIds == 2
NumWorkers == 2
MaxTime == 2
MaxMaxRetries == 3

JobIds == 1..NumJobIds
Workers == 1..NumWorkers
\* the command is an opaque string handed to the shell; the model does not
\* interpret it, its exit status is drawn when it runs
Commands == {"cmd"}
\* max_retries of an enqueue payload: cli.py takes whatever the JSON holds
MaxRetriesInputs == {0, 1, MaxMaxRetries}

(* retry_after_time TEXT (nullable): the SQL NULL / Python None *)
NULL == -1

(* get_config('retry_base', default='2') *)
DefaultRetryBase == 2
RetryBaseValues == {DefaultRetryBase, DefaultRetryBase + 1}

VARIABLES
  jobs,        \* the jobs table: id -> row
  now,         \* the wall clock, datetime.now(timezone.utc)
  pc,          \* per worker: position in Worker.run / pick_job_for_worker
  job,         \* per worker: the in-memory Job object it works on
  retry_base,  \* per worker: self.retry_base, resolved once in __init__
  cli,         \* the queuectl command in flight: what it was asked, where it is,
               \* what it reports
  stop         \* STOP_EVENT of the `worker start` process: is it set

vars == <<jobs, now, pc, job, retry_base, cli, stop>>

NoJob == [id |-> 0, command |-> "", state |-> "", attempts |-> 0,
          max_retries |-> 0, retry_after_time |-> NULL]

CliIdle == [cmd |-> "", id |-> 0, step |-> "idle", ok |-> TRUE, job |-> NoJob]

RECURSIVE Pow(_, _)
Pow(b, k) == IF k <= 0 THEN 1 ELSE b * Pow(b, k - 1)

(* ---- job.py ---- *)

\* Job(id, command, max_retries): state 'pending', attempts 0, created_at now,
\* retry_after_time None
Job(id, command, max_retries, t) ==
  [id |-> id, command |-> command, state |-> "pending", attempts |-> 0,
   max_retries |-> max_retries, created_at |-> t, retry_after_time |-> NULL]

(* ---- storage.py ---- *)

\* the table row a Job is stored as (the id is the key)
Row(j) == [command |-> j.command, state |-> j.state, attempts |-> j.attempts,
           max_retries |-> j.max_retries, created_at |-> j.created_at,
           retry_after_time |-> j.retry_after_time]

\* row_to_job: the Job object built from a row. created_at is carried by the
\* object but never read or written back, so the in-memory copy omits it.
row_to_job(id, row) ==
  [id |-> id, command |-> row.command, state |-> row.state,
   attempts |-> row.attempts, max_retries |-> row.max_retries,
   retry_after_time |-> row.retry_after_time]

\* INSERT OR REPLACE in place of INSERT OR IGNORE
enqueue_job_replace(store, j) ==
  [i \in DOMAIN store \cup {j.id} |-> IF i = j.id THEN Row(j) ELSE store[i]]

\* INSERT OR IGNORE INTO jobs ...: the table after the statement
enqueue_job(store, j) ==
  IF j.id \in DOMAIN store
    THEN store
    ELSE [i \in DOMAIN store \cup {j.id} |-> IF i = j.id THEN Row(j) ELSE store[i]]

\* enqueue_job's return value: cursor.rowcount # 0
enqueue_ok(store, j) == j.id \notin DOMAIN store

\* WHERE state = 'pending' AND (retry_after_time IS NULL OR retry_after_time <= ?)
Eligible(row, t) ==
  /\ row.state = "pending"
  /\ (row.retry_after_time = NULL \/ row.retry_after_time <= t)

\* SELECT ... ORDER BY created_at ASC LIMIT 1: the ids the query may return
\* (rows with equal created_at come in an order SQLite does not specify)
SelectCandidates(store, t) ==
  {i \in DOMAIN store :
     /\ Eligible(store[i], t)
     /\ \A k \in DOMAIN store :
          Eligible(store[k], t) => store[i].created_at <= store[k].created_at}

\* UPDATE jobs SET state = ?, updated_at = ? WHERE id = ?   (pick_job_for_worker)
mark_processing(store, j) ==
  [store EXCEPT ![j.id] = [@ EXCEPT !.state = j.state]]

\* the except clauses of pick_job_for_worker with conn.commit() for
\* conn.rollback(): an UPDATE already executed stays
pick_rollback_commits(store, j) ==
  IF j.id \in DOMAIN store THEN mark_processing(store, j) ELSE store

\* pick_job_for_worker, the except clauses: conn.rollback() undoes whatever the
\* connection has executed; the table is as it was; job = None
pick_rollback(store, j) == store

\* update_job_state: job.updated_at = now; UPDATE jobs SET state, attempts,
\* updated_at, retry_after_time WHERE id = ?
update_job_state(store, j) ==
  [store EXCEPT ![j.id] = [@ EXCEPT !.state = j.state, !.attempts = j.attempts,
                                    !.retry_after_time = j.retry_after_time]]

(* ---- worker.py ---- *)

\* what subprocess.run does: exit status 0, a non-zero exit status, or an
\* exception (the command could not be launched, its output not decoded)
RunOutcomes == {"exit0", "exit1", "raised"}

\* handle_success without `job.retry_after_time = None`
handle_success_keeps_retry(j) == [j EXCEPT !.state = "completed"]

\* Worker.handle_success, up to the store write
handle_success(j) == [j EXCEPT !.state = "completed", !.retry_after_time = NULL]

\* handle_failure with `job.attempts > job.max_retries`
handle_failure_gt(j, base, t) ==
  LET a == j.attempts + 1 IN
  IF a > j.max_retries
    THEN [j EXCEPT !.attempts = a, !.state = "dead", !.retry_after_time = NULL]
    ELSE [j EXCEPT !.attempts = a, !.state = "pending",
                   !.retry_after_time = t + Pow(base, a)]

\* handle_failure without the max_retries check: every failure is retried
handle_failure_no_limit(j, base, t) ==
  LET a == j.attempts + 1 IN
  [j EXCEPT !.attempts = a, !.state = "pending",
            !.retry_after_time = t + Pow(base, a)]

\* handle_failure with the exponent taken before the increment
handle_failure_exp0(j, base, t) ==
  LET a == j.attempts + 1 IN
  IF a >= j.max_retries
    THEN [j EXCEPT !.attempts = a, !.state = "dead", !.retry_after_time = NULL]
    ELSE [j EXCEPT !.attempts = a, !.state = "pending",
                   !.retry_after_time = t + Pow(base, j.attempts)]

\* Worker.handle_failure, up to the store write
handle_failure(j, base, t) ==
  LET a == j.attempts + 1 IN
  IF a >= j.max_retries
    THEN [j EXCEPT !.attempts = a, !.state = "dead", !.retry_after_time = NULL]
    ELSE [j EXCEPT !.attempts = a, !.state = "pending",
                   !.retry_after_time = t + Pow(base, a)]

\* Worker.process_job: the Job object that reaches the store.
\*   exit0, exit1: the handler for the exit status runs in the try block;
\*   raised: the except clause calls handle_failure;
\*   write_raised: update_job_state raises inside the handler (database locked
\*   past the timeout) after the handler has changed the in-memory job, and
\*   the except clause calls handle_failure on the same object.
process_job(j, base, t, outcome, write_raised) ==
  LET handled == IF outcome = "exit0" THEN handle_success(j)
                 ELSE IF outcome = "exit1" THEN handle_failure(j, base, t)
                 ELSE j
  IN IF outcome = "raised" \/ write_raised
       THEN handle_failure(handled, base, t)
       ELSE handled

\* process_job without its try / except
worker_survives_no_except(outcome, write_raised, except_write_raised) ==
  outcome # "raised" /\ ~write_raised

\* Worker.process_job returns to Worker.run: every exception of the try block
\* is caught; one raised inside the except clause (except_write_raised: the
\* update_job_state of its handle_failure call) is not, and ends the worker
worker_survives(outcome, write_raised, except_write_raised) ==
  ~((outcome = "raised" \/ write_raised) /\ except_write_raised)

(* ---- initial state: empty table, workers constructed and at the loop top ---- *)
Init ==
  /\ jobs = [i \in {} |-> NoJob]
  /\ now = 0
  /\ pc = [w \in Workers |-> "poll"]
  /\ job = [w \in Workers |-> NoJob]
  /\ \E b \in RetryBaseValues : retry_base = [w \in Workers |-> b]
  /\ cli = CliIdle
  /\ stop = FALSE

(* ---- cli.py ---- *)

\* queuectl enqueue '{"id":..., "command":..., "max_retries":...}': builds the
\* Job, calls enqueue_job and is left to echo the outcome
Enqueue(id, command, m) ==
  LET j == Job(id, command, m, now) IN
  /\ cli = CliIdle
  /\ \E db_error \in BOOLEAN :
       IF db_error
         THEN \* enqueue_job: the INSERT raises; rollback, return False
              /\ jobs' = jobs
              /\ cli' = [cmd |-> "enqueue", id |-> id, step |-> "echo",
                         ok |-> FALSE, job |-> NoJob]
         ELSE /\ jobs' = enqueue_job(jobs, j)
              /\ cli' = [cmd |-> "enqueue", id |-> id, step |-> "echo",
                         ok |-> enqueue_ok(jobs, j), job |-> NoJob]
  /\ UNCHANGED <<now, pc, job, retry_base, stop>>

\* retry: the in-memory job after `job.state = 'pending'; job.attempts = 0;
\* job.retry_after_time = None`
retry_reset(j) ==
  [j EXCEPT !.state = "pending", !.attempts = 0, !.retry_after_time = NULL]

\* retry without the `job.state != 'dead'` check
retry_allowed_any_state(store, id) == id \in DOMAIN store

\* retry: the two checks on the job read by get_job_by_id pass
retry_allowed(store, id) == id \in DOMAIN store /\ store[id].state = "dead"

\* queuectl dlq retry <id>: get_job_by_id, the two checks and the reset of the
\* in-memory job; a rejected command only echoes its error
RetryCheck(id) ==
  /\ cli = CliIdle
  /\ IF retry_allowed(jobs, id)
       THEN cli' = [cmd |-> "retry", id |-> id, step |-> "write", ok |-> TRUE,
                    job |-> retry_reset(row_to_job(id, jobs[id]))]
       ELSE cli' = [cmd |-> "retry", id |-> id, step |-> "echo", ok |-> FALSE,
                    job |-> NoJob]
  /\ UNCHANGED <<jobs, now, pc, job, retry_base, stop>>

\* queuectl dlq retry <id>: update_job_state(job), in a transaction of its own
RetryWrite ==
  /\ cli.step = "write"
  /\ jobs' = update_job_state(jobs, cli.job)
  /\ cli' = [cli EXCEPT !.step = "echo", !.job = NoJob]
  /\ UNCHANGED <<now, pc, job, retry_base, stop>>

\* the command has echoed its message and the CLI process exits
CliExit ==
  /\ cli.step = "echo"
  /\ cli' = CliIdle
  /\ UNCHANGED <<jobs, now, pc, job, retry_base, stop>>

(* ---- Worker.run ---- *)

\* pick_job_for_worker, the SELECT (run outside any transaction: sqlite3 opens
\* one only before the UPDATE). No row: the worker sleeps and polls again.
Select(w) ==
  /\ pc[w] = "poll"
  /\ IF SelectCandidates(jobs, now) = {}
       THEN UNCHANGED <<pc, job>>
       ELSE \E i \in SelectCandidates(jobs, now) :
            /\ job' = [job EXCEPT ![w] =
                         [row_to_job(i, jobs[i]) EXCEPT !.state = "processing"]]
            /\ pc' = [pc EXCEPT ![w] = "selected"]
  /\ UNCHANGED <<jobs, now, retry_base, cli, stop>>

\* pick_job_for_worker, the UPDATE and commit; returns the job
Claim(w) ==
  /\ pc[w] = "selected"
  /\ jobs' = mark_processing(jobs, job[w])
  /\ pc' = [pc EXCEPT ![w] = "running"]
  /\ UNCHANGED <<now, job, retry_base, cli, stop>>

\* pick_job_for_worker: sqlite3.OperationalError (lock timeout) on the SELECT or
\* the UPDATE: rollback, return None
PickLocked(w) ==
  /\ pc[w] \in {"poll", "selected"}
  /\ jobs' = pick_rollback(jobs, job[w])
  /\ pc' = [pc EXCEPT ![w] = "poll"]
  /\ job' = [job EXCEPT ![w] = NoJob]
  /\ UNCHANGED <<now, retry_base, cli, stop>>

\* Worker.process_job: runs the command and persists the outcome; the store
\* changes once, at the update_job_state call that succeeds. The command ends
\* in one of `outcomes`, the first store write raises or not as in `writes`.
RunJob(w, outcomes, writes) ==
  /\ pc[w] = "running"
  /\ \E outcome \in outcomes, write_raised \in writes :
       /\ \E except_write_raised \in BOOLEAN :
            worker_survives(outcome, write_raised, except_write_raised)
       /\ jobs' = update_job_state(jobs,
                    process_job(job[w], retry_base[w], now, outcome, write_raised))
  /\ pc' = [pc EXCEPT ![w] = "poll"]
  /\ job' = [job EXCEPT ![w] = NoJob]
  /\ UNCHANGED <<now, retry_base, cli, stop>>

\* Worker.process_job of any command, over a store that may be locked
ProcessJob(w) == RunJob(w, RunOutcomes, BOOLEAN)

\* Worker.process_job: update_job_state raises in the except clause (or in the
\* handler and again in the except clause); nothing catches it, the worker
\* process ends and the row keeps its state
WorkerCrash(w) ==
  /\ pc[w] = "running"
  /\ \E outcome \in RunOutcomes, write_raised, except_write_raised \in BOOLEAN :
       ~worker_survives(outcome, write_raised, except_write_raised)
  /\ pc' = [pc EXCEPT ![w] = "crashed"]
  /\ job' = [job EXCEPT ![w] = NoJob]
  /\ UNCHANGED <<jobs, now, retry_base, cli, stop>>

\* time passes
Tick ==
  /\ now < MaxTime
  /\ now' = now + 1
  /\ UNCHANGED <<jobs, pc, job, retry_base, cli, stop>>

\* the stop event read inside process_job as well
stop_observed_mid_job(p, s) == p \in {"poll", "running"} /\ s

\* `while not self.stop_event.is_set()`: the worker reads the event at the top
\* of its loop, when it holds no job
stop_observed(p, s) == p = "poll" /\ s

\* Worker.run: the loop condition fails and run returns
WorkerStop(w) ==
  /\ stop_observed(pc[w], stop)
  /\ pc' = [pc EXCEPT ![w] = "stopped"]
  /\ UNCHANGED <<jobs, now, job, retry_base, cli, stop>>

(* ---- cli.py: the `worker start` process ---- *)

\* cleanup_workers, run on SIGINT / SIGTERM: STOP_EVENT.set()
Shutdown ==
  /\ ~stop
  /\ stop' = TRUE
  /\ UNCHANGED <<jobs, now, pc, job, retry_base, cli>>

\* cleanup_workers: process.join(timeout=10) returns with the worker still alive
\* (its command outlasts the wait) and process.terminate() ends the worker
Terminate(w) ==
  /\ stop
  /\ pc[w] = "running"
  /\ pc' = [pc EXCEPT ![w] = "terminated"]
  /\ job' = [job EXCEPT ![w] = NoJob]
  /\ UNCHANGED <<jobs, now, retry_base, cli, stop>>

Next ==
  \/ \E id \in JobIds, c \in Commands, m \in MaxRetriesInputs : Enqueue(id, c, m)
  \/ \E id \in JobIds : RetryCheck(id)
  \/ RetryWrite
  \/ CliExit
  \/ \E w \in Workers : Select(w)
  \/ \E w \in Workers : Claim(w)
  \/ \E w \in Workers : PickLocked(w)
  \/ \E w \in Workers : ProcessJob(w)
  \/ \E w \in Workers : WorkerCrash(w)
  \/ Tick

Spec == Init /\ [][Next]_vars

\* the outcomes of a command that fails on every execution
FailingOutcomes == RunOutcomes \ {"exit0"}

\* jobs whose commands fail on every execution, in a store that accepts every
\* outcome write, with no administrative requeue
NextAlwaysFail ==
  \/ \E id \in JobIds, c \in Commands, m \in MaxRetriesInputs : Enqueue(id, c, m)
  \/ CliExit
  \/ \E w \in Workers : Select(w)
  \/ \E w \in Workers : Claim(w)
  \/ \E w \in Workers : PickLocked(w)
  \/ \E w \in Workers : RunJob(w, FailingOutcomes, {FALSE})
  \/ Tick

SpecAlwaysFail == Init /\ [][NextAlwaysFail]_vars

\* the workers over a store that may be locked, with jobs being enqueued and
\* no administrative requeue
NextLive ==
  \/ \E id \in JobIds, c \in Commands, m \in MaxRetriesInputs : Enqueue(id, c, m)
  \/ CliExit
  \/ \E w \in Workers : Select(w)
  \/ \E w \in Workers : Claim(w)
  \/ \E w \in Workers : PickLocked(w)
  \/ \E w \in Workers : ProcessJob(w)
  \/ \E w \in Workers : WorkerCrash(w)
  \/ Tick

\* a worker process that is alive keeps running its loop (Worker.run has no
\* blocking call besides the bounded lock wait, the one-second sleep and the
\* command, which terminates), and time advances
Fairness ==
  /\ \A w \in Workers :
       WF_vars(Select(w)) /\ WF_vars(Claim(w)) /\ WF_vars(ProcessJob(w))
  /\ WF_vars(Tick)

SpecLive == Init /\ [][NextLive]_vars /\ Fairness

\* `worker start` and its workers up to and through a SIGINT / SIGTERM, with
\* jobs being enqueued meanwhile
NextShutdown ==
  \/ \E id \in JobIds, c \in Commands, m \in MaxRetriesInputs : Enqueue(id, c, m)
  \/ CliExit
  \/ \E w \in Workers : Select(w)
  \/ \E w \in Workers : Claim(w)
  \/ \E w \in Workers : PickLocked(w)
  \/ \E w \in Workers : ProcessJob(w)
  \/ \E w \in Workers : WorkerCrash(w)
  \/ Tick
  \/ Shutdown
  \/ \E w \in Workers : WorkerStop(w)
  \/ \E w \in Workers : Terminate(w)

SpecShutdown == Init /\ [][NextShutdown]_vars

(* ======================================================================= *)
(* Properties                                                              *)
(* ======================================================================= *)

\* the workers pick_job_for_worker has returned job `id` to and that have not
\* yet persisted its outcome
Holders(id) == {w \in Workers : pc[w] = "running" /\ job[w].id = id}

\* this step is worker w's UPDATE-and-commit in pick_job_for_worker
ClaimStep(w) == pc[w] = "selected" /\ pc'[w] = "running"

\* this step is worker w's store write at the end of process_job
OutcomeStep(w) == pc[w] = "running" /\ pc'[w] = "poll"

\* this step is the UPDATE of `dlq retry` on job id
RequeueStep(id) == cli.step = "write" /\ cli'.step = "echo" /\ cli.job.id = id

\* C1: at every instant at most one worker holds a given job: no job id is
\* returned by pick_job_for_worker to two workers for one pending episode.
ExclusiveClaim == \A id \in JobIds : Cardinality(Holders(id)) <= 1

\* C2: every stored job has attempts <= max_retries. Stated for the jobs
\* enqueued with a positive max_retries, the only ones the data model admits;
\* it fails for these and so for all jobs.
AttemptsWithinMaxRetries ==
  \A id \in DOMAIN jobs :
    jobs[id].max_retries >= 1 => jobs[id].attempts <= jobs[id].max_retries

\* a dead job has attempts >= max_retries
DeadHasExhaustedRetries ==
  \A id \in DOMAIN jobs :
    jobs[id].state = "dead" => jobs[id].attempts >= jobs[id].max_retries

\* a failure persisted with attempts >= max_retries writes state dead
ExhaustingFailureGoesDead ==
  \A w \in Workers :
    LET id == job[w].id IN
    (OutcomeStep(w) /\ jobs'[id].state # "completed"
       /\ jobs'[id].attempts >= jobs'[id].max_retries)
    => jobs'[id].state = "dead"

\* C3: in every reachable state a dead job has attempts >= max_retries, and a
\* failure that is persisted with attempts >= max_retries leaves the job dead,
\* never pending.
DeadIffRetriesExhausted ==
  [](DeadHasExhaustedRetries) /\ [][ExhaustingFailureGoesDead]_vars

\* C3 witness: a job enqueued with max_retries 3 rests in dead after a failure
\* brought its attempts to 3.
DeadAfterRetriesWitness ==
  \E id \in DOMAIN jobs :
    /\ jobs[id].state = "dead"
    /\ jobs[id].max_retries = MaxMaxRetries
    /\ jobs[id].attempts = jobs[id].max_retries

\* C4 as stated: a job whose stored state is processing, completed or dead has
\* retry_after_time unset.
RetryTimeUnsetUnlessPending ==
  \A id \in DOMAIN jobs :
    jobs[id].state \in {"processing", "completed", "dead"}
      => jobs[id].retry_after_time = NULL

\* C4 amended: a completed or dead job has retry_after_time unset; it is set
\* only on a pending or processing job that has failed at least once (the
\* claim's UPDATE leaves the column as it was).
RetryTimeUnsetWhenCompletedOrDead ==
  \A id \in DOMAIN jobs :
    /\ jobs[id].state \in {"completed", "dead"} => jobs[id].retry_after_time = NULL
    /\ jobs[id].retry_after_time # NULL =>
         /\ jobs[id].state \in {"pending", "processing"}
         /\ jobs[id].attempts >= 1

\* C4 witness: a job that failed, was claimed again after its backoff and then
\* completed (its retry time was cleared by the success write).
CompletedAfterRetryWitness ==
  \E id \in DOMAIN jobs :
    /\ jobs[id].state = "completed"
    /\ jobs[id].attempts >= 1
    /\ jobs[id].retry_after_time = NULL

\* C5: pick_job_for_worker never moves to processing (and returns) a pending
\* job whose retry_after_time is strictly later than the current time.
ClaimsNoFutureRetry ==
  [][\A w \in Workers :
       ClaimStep(w) =>
         ~(/\ jobs[job[w].id].state = "pending"
           /\ jobs[job[w].id].retry_after_time # NULL
           /\ jobs[job[w].id].retry_after_time > now)]_vars

\* C6: once a job is completed its state never changes again.
CompletedIsTerminal ==
  [][\A id \in DOMAIN jobs :
       jobs[id].state = "completed" => jobs'[id].state = "completed"]_vars

\* C7: a dead job changes state only through the administrative requeue.
DeadLeftOnlyByRequeue ==
  [][\A id \in DOMAIN jobs :
       (jobs[id].state = "dead" /\ jobs'[id].state # "dead") => RequeueStep(id)]_vars

\* C8: enqueue of an id that is already stored reports failure and leaves the
\* table, and so the existing row in every field, unchanged.
EnqueueExistingRejected ==
  [][(cli.step = "idle" /\ cli'.cmd = "enqueue" /\ cli'.id \in DOMAIN jobs)
       => (jobs' = jobs /\ cli'.ok = FALSE)]_vars

\* C8 witness: a re-enqueue of a job that has already failed and completed or
\* died has been rejected.
EnqueueRejectedWitness ==
  /\ cli.cmd = "enqueue" /\ cli.step = "echo" /\ cli.ok = FALSE
  /\ cli.id \in DOMAIN jobs
  /\ jobs[cli.id].state \in {"completed", "dead"}
  /\ jobs[cli.id].attempts >= 1
  /\ jobs[cli.id].created_at < now

\* `dlq retry` goes on to its write only for a stored job it read as dead; any
\* other id is rejected; the read changes nothing
RequeueChecked ==
  (cli.step = "idle" /\ cli'.cmd = "retry") =>
    /\ jobs' = jobs
    /\ IF cli'.id \in DOMAIN jobs /\ jobs[cli'.id].state = "dead"
         THEN cli'.step = "write" /\ cli'.job.id = cli'.id
         ELSE cli'.step = "echo" /\ cli'.ok = FALSE

\* the write of `dlq retry` sets state pending, attempts 0, retry_after_time
\* null, and nothing else
RequeueWritten ==
  \A id \in DOMAIN jobs :
    RequeueStep(id) =>
      /\ jobs'[id] = [jobs[id] EXCEPT !.state = "pending", !.attempts = 0,
                                      !.retry_after_time = NULL]
      /\ \A k \in DOMAIN jobs \ {id} : jobs'[k] = jobs[k]
      /\ Eligible(jobs'[id], now)
      /\ cli'.ok = TRUE

\* C9: requeue of a missing or non-dead job is rejected and mutates nothing;
\* requeue of a dead job writes state pending, attempts 0, retry_after_time
\* null (and nothing else), which leaves the job eligible at once.
RequeueOnlyDead == [][RequeueChecked /\ RequeueWritten]_vars

\* C9 witness: a dead job with used-up attempts has been requeued, and the
\* SELECT of a worker would return it now.
RequeuedWitness ==
  /\ cli.cmd = "retry" /\ cli.step = "echo" /\ cli.ok = TRUE
  /\ jobs[cli.id].state = "pending"
  /\ jobs[cli.id].attempts = 0
  /\ jobs[cli.id].max_retries >= 1
  /\ cli.id \in SelectCandidates(jobs, now)

\* the delays of the spec's table for base 2
LiteralDelay(k) == IF k = 1 THEN 2 ELSE IF k = 2 THEN 4 ELSE 8

\* a failure write that leaves the job pending with attempts = k
BackoffStep ==
  \A w \in Workers :
    LET id == job[w].id
        k == jobs'[id].attempts
        d == jobs'[id].retry_after_time - now
    IN (OutcomeStep(w) /\ jobs'[id].state = "pending") =>
         /\ k >= 1
         /\ d = Pow(retry_base[w], k)
         /\ (retry_base[w] = DefaultRetryBase /\ k <= 3) => d = LiteralDelay(k)
         /\ \A t \in 0..(now + d) : Eligible(jobs'[id], t) <=> t = now + d

EarliestEligible(w) ==
  LET id == job[w].id IN
  /\ Eligible(jobs[id], now)
  /\ \A k \in DOMAIN jobs :
       Eligible(jobs[k], now) => jobs[id].created_at <= jobs[k].created_at

\* C11: whenever pick_job_for_worker returns a job (its UPDATE commits), that
\* job is eligible at that moment and no eligible job with a strictly earlier
\* created_at is passed over.
ClaimsEarliestEligible ==
  [][\A w \in Workers : ClaimStep(w) => EarliestEligible(w)]_vars

\* worker w ends in this step: its loop ends on the stop event, or the
\* `worker start` process terminates it
StopsOnSignal(w) == pc[w] # "stopped" /\ pc'[w] = "stopped"
ForceTerminated(w) == pc[w] # "terminated" /\ pc'[w] = "terminated"

\* C12 as stated: a shutdown ends a worker only between jobs, after every job
\* it claimed has received its outcome transition; no worker is ended by the
\* shutdown while it runs a job.
ShutdownNeverInterruptsJob ==
  [][\A w \in Workers :
       (StopsOnSignal(w) \/ ForceTerminated(w)) => pc[w] = "poll"]_vars

\* C12 amended: a worker leaves its loop on the stop event only at the loop top,
\* holding no job and with the event set, and writes nothing in doing so; a
\* worker is force-terminated only after the event was set and while it runs a
\* job, and that job's row is left as it is.
StopObservedBetweenJobs ==
  [][\A w \in Workers :
       /\ StopsOnSignal(w) =>
            (stop /\ pc[w] = "poll" /\ job[w] = NoJob /\ jobs' = jobs)
       /\ ForceTerminated(w) =>
            (stop /\ pc[w] = "running" /\ jobs' = jobs)]_vars

\* C12 witness: after a shutdown one worker has left its loop on the stop event
\* and the other was force-terminated, with a job left in processing.
ShutdownWitness ==
  /\ stop
  /\ \E w1, w2 \in Workers : pc[w1] = "stopped" /\ pc[w2] = "terminated"
  /\ \E id \in DOMAIN jobs : jobs[id].state = "processing"
  /\ \E id \in DOMAIN jobs : jobs[id].state \in {"completed", "dead"}

\* C13: for every job a worker runs, the job that process_job persists is
\* completed, with attempts as claimed, when the command exits 0 (whatever the
\* store write does), and is the failure transition (attempts incremented,
\* pending or dead) when the command exits non-zero or cannot be launched.
CompletedIffExitZero ==
  \A w \in Workers :
    pc[w] = "running" =>
      \A write_raised \in BOOLEAN :
        /\ LET r == process_job(job[w], retry_base[w], now, "exit0", write_raised)
           IN r.state = "completed" /\ r.attempts = job[w].attempts
        /\ \A outcome \in RunOutcomes \ {"exit0"} :
             LET r == process_job(job[w], retry_base[w], now, outcome, write_raised)
             IN r.state \in {"pending", "dead"} /\ r.attempts > job[w].attempts

\* a non-zero exit or a launch failure, with the store accepting the write, is
\* handled inside process_job: the worker goes on, and the job it persists is
\* the failure transition
JobFailureHandled ==
  \A w \in Workers :
    pc[w] = "running" =>
      \A outcome \in RunOutcomes \ {"exit0"} :
        LET r == process_job(job[w], retry_base[w], now, outcome, FALSE) IN
        /\ worker_survives(outcome, FALSE, FALSE)
        /\ r.state \in {"pending", "dead"}
        /\ r.attempts = job[w].attempts + 1

\* a worker that has processed a job has persisted a transition of that job
\* and is at the top of its loop, holding no job
BackAtLoopTop ==
  \A w \in Workers :
    OutcomeStep(w) =>
      /\ jobs'[job[w].id].state \in {"completed", "pending", "dead"}
      /\ job'[w] = NoJob

\* Worker.run returns only when the stop event is set
LeavesLoopOnStop == \A w \in Workers : StopsOnSignal(w) => stop

PickFailedStep(w) == pc[w] = "selected" /\ pc'[w] = "poll"

\* C15: when pick_job_for_worker meets lock contention or a lock timeout it
\* returns None to the worker without raising and leaves every row as it was
\* (no row is left in processing without an owner); the worker is back at the
\* top of its loop, holding no job, and polls again.
LockedClaimChangesNothing ==
  [][\A w \in Workers :
       PickFailedStep(w) =>
         (jobs' = jobs /\ job'[w] = NoJob /\ pc'[w] \notin {"crashed", "running"})]_vars

\* C15 witness: both workers have read the same pending row and are about to
\* write it: their connections contend for the write lock, and the row is still
\* pending.
LockContentionWitness ==
  \E w1, w2 \in Workers :
    /\ w1 # w2
    /\ pc[w1] = "selected" /\ pc[w2] = "selected"
    /\ job[w1].id = job[w2].id
    /\ jobs[job[w1].id].state = "pending"
    /\ jobs[job[w1].id].attempts >= 1

\* C16: every job accepted by enqueue (a row that enters the table) is stored
\* pending, with attempts 0 and a positive max_retries (>= 1): an enqueue
\* payload whose max_retries is zero or negative never reaches the store.
AcceptedJobWellFormed ==
  [][\A id \in JobIds :
       (id \notin DOMAIN jobs /\ id \in DOMAIN jobs') =>
         /\ jobs'[id].state = "pending"
         /\ jobs'[id].attempts = 0
         /\ jobs'[id].max_retries >= 1]_vars

\* a failure of a job with a positive max_retries is persisted as the next
\* failure of that job: stored attempts goes from k - 1 to k; the job is dead
\* exactly when k = max_retries, and otherwise pending with a backoff of
\* retry_base^k
FailureAdvances(w) ==
  LET id == job[w].id
      k == jobs'[id].attempts
  IN (OutcomeStep(w) /\ jobs[id].max_retries >= 1) =>
       /\ jobs[id].state = "processing"
       /\ k = jobs[id].attempts + 1
       /\ k <= jobs[id].max_retries
       /\ jobs'[id].state = IF k = jobs[id].max_retries THEN "dead" ELSE "pending"
       /\ jobs'[id].state = "pending" =>
            jobs'[id].retry_after_time = now + Pow(retry_base[w], k)

\* C17: a job with max_retries = n whose command fails on every execution is
\* executed exactly n times: its k-th execution finds it processing with
\* attempts k - 1 and leaves it with attempts k, pending with a backoff of
\* retry_base^k while k < n and dead when k = n, for any number of workers.
FailingJobRunsMaxRetriesTimes == [][\A w \in Workers : FailureAdvances(w)]_vars

\* C18: in every reachable state a pending job that has failed at least once
\* (attempts > 0) has attempts < max_retries.
PendingBelowMaxRetries ==
  \A id \in DOMAIN jobs :
    (jobs[id].state = "pending" /\ jobs[id].attempts > 0)
      => jobs[id].attempts < jobs[id].max_retries

\* C18 witness: a job with max_retries 3 is pending after its second failure,
\* one failure short of dead, its backoff not yet elapsed.
PendingAfterFailuresWitness ==
  \E id \in DOMAIN jobs :
    /\ jobs[id].state = "pending"
    /\ jobs[id].attempts = jobs[id].max_retries - 1
    /\ jobs[id].attempts = 2
    /\ jobs[id].retry_after_time > now

\* C19: a job's stored attempts changes only by +1, in the write that persists a
\* failed execution of the job, or to 0 by the requeue; every other step (the
\* claim, a success) leaves it as it is: it never decreases and is never
\* incremented twice for one execution, whatever the store write does. Stated
\* for the jobs with a positive max_retries.
AttemptsChangeOnlyByFailureOrRequeue ==
  [][\A id \in DOMAIN jobs :
       \/ jobs[id].max_retries < 1
       \/ jobs'[id].attempts = jobs[id].attempts
       \/ /\ \E w \in Workers : OutcomeStep(w) /\ job[w].id = id
          /\ jobs'[id].state \in {"pending", "dead"}
          /\ jobs'[id].attempts = jobs[id].attempts + 1
       \/ /\ RequeueStep(id)
          /\ jobs'[id].attempts = 0]_vars

\* C20: with the workers scheduled fairly, time advancing, every command
\* terminating and no requeue, no job stays in processing forever: a job that
\* is processing eventually has an outcome (completed, pending with a backoff
\* or dead).
ProcessingEventuallySettles ==
  \A id \in JobIds :
    (id \in DOMAIN jobs /\ jobs[id].state = "processing")
      ~> (id \in DOMAIN jobs /\ jobs[id].state # "processing")

====
